---- MODULE Spec2Model ----
(***************************************************************************)
(* The conversation and messaging route handlers of the marketplace        *)
(* backend, over the Conversation and Message collections.                 *)
(*                                                                         *)
(* Every handler is a chain of awaited ORM calls.  Each awaited call is    *)
(* one atomic step on the database; between two awaited calls of one       *)
(* request the steps of other requests may run.  A request in flight keeps *)
(* its position (pc) and the locals it has computed so far.  A request the *)
(* handler answers before its first write leaves no trace in the store:    *)
(* its status is given by the handler's Status operator.                   *)
(*                                                                         *)
(* The repository holds the handlers in two schema variants: role-typed    *)
(* (customerId / vendorId / customerUnread / vendorUnread, messages tagged *)
(* with senderType) and unified (senderId / receiverId / senderUnread /    *)
(* receiverUnread).  The migration note maps the fields one to one, so the *)
(* model keeps one record layout under the role-typed names; the unified   *)
(* handlers read senderId as customerId, receiverId as vendorId,           *)
(* senderUnread as customerUnread and receiverUnread as vendorUnread.      *)
(* The variable schema says which variant of the conversation routes is    *)
(* deployed.                                                               *)
(***************************************************************************)
EXTENDS Integers, FiniteSets, Sequences, Bags, TLC

\* ---------------------------------------------------------------- bounds
NumCustomers == 1
NumVendors == 1
NumProducts == 1
MaxConvs == 2
MaxMsgs == 2
MaxDocs == 3
MaxTime == 1
MaxReq == 2

\* ------------------------------------------------------- stored directories
\* Customer and Vendor are separate collections (role-typed schema); the
\* unified schema merges both into User.  Ids are database object ids: no two
\* records share one.
Customers == 1..NumCustomers
Vendors == (NumCustomers + 1)..(NumCustomers + NumVendors)
Users == Customers \cup Vendors
Products == 1..NumProducts

\* Values a request can carry.  0 stands for a missing (falsy) field; the
\* largest value of each range is an id that resolves to no stored record.
UserIdInputs == 0..(NumCustomers + NumVendors + 1)
ProductIdInputs == 0..(NumProducts + 1)
SenderTypeInputs == {"", "customer", "vendor", "admin"}
UserTypeInputs == {"", "customer", "vendor", "admin"}
ContentInputs == {"", " ", "hi"}

VARIABLES
    schema,         \* "typed" | "unified": the deployed conversation routes
    serial,         \* TRUE: the client issues one request at a time
    conversations,  \* the Conversation collection (a set of records)
    messages,       \* the Message collection (a set of records)
    nextConvId,     \* the next fresh Conversation id
    nextMsgId,      \* the next fresh Message id
    now,            \* the server clock
    inflight,       \* the bag of requests between two awaited calls
    nodeEnv,        \* process.env.NODE_ENV
    response,       \* the last answer built by a catch block
    reviews,        \* the Review collection (a set of records)
    nextReviewId    \* the next fresh Review id

vars == <<schema, serial, conversations, messages, nextConvId, nextMsgId, now,
          inflight, nodeEnv, response, reviews, nextReviewId>>

\* What no step of a conversation or message handler changes.
deployment == <<schema, serial, nodeEnv, response, reviews, nextReviewId>>

\* A client learns a conversation's id from an answer, so a request names an
\* id the store has issued (the conversation may have been deleted since) or
\* an id that was never issued.
ConvIdInputs == (1..(nextConvId - 1)) \cup {MaxConvs + 1}

\* The documents created so far; a run creates at most MaxDocs of them.
DocsCreated == (nextConvId - 1) + (nextMsgId - 1)

\* ------------------------------------------------------------ store helpers
ConvById(id) == {c \in conversations : c.id = id}
MessagesOf(id) == {m \in messages : m.conversationId = id}

\* conversation.update({ where: { id }, data }): the record with its fields
\* changed, all other records as they are.
UpdateConversation(c, d) == (conversations \ {c}) \cup {d}

\* ------------------------------------------------------- requests in flight
Pending == BagToSet(inflight)

CanStart ==
    /\ BagCardinality(inflight) < MaxReq
    /\ serial => inflight = EmptyBag

Start(r) == inflight' = inflight (+) SetToBag({r})
Finish(r) == inflight' = inflight (-) SetToBag({r})
Goto(r, q) == inflight' = (inflight (-) SetToBag({r})) (+) SetToBag({q})

\* ----------------------------------------------------------- schema defaults
\* The Prisma schema is not among the sources.  The fields the create calls do
\* not pass take its defaults, modelled from the specification: an unread
\* counter starts at 0, and createdAt and lastMessageAt are the time of the
\* insert.  Deleting a conversation deletes its messages.
DefaultUnread == 0
DefaultTimestamp == now
OnDeleteCascade(id) == MessagesOf(id)

\* conversation.create({ data: { <participants>, productId: productId || null } })
NewConversation(id, customerId, vendorId, productId) ==
    [id |-> id, customerId |-> customerId, vendorId |-> vendorId,
     productId |-> productId,
     customerUnread |-> DefaultUnread, vendorUnread |-> DefaultUnread,
     createdAt |-> DefaultTimestamp, lastMessageAt |-> DefaultTimestamp]

\* message.create({ data: { conversationId, senderId, senderType, content,
\*                          isRead: false } })
NewMessage(id, conversationId, senderId, senderType, content) ==
    [id |-> id, conversationId |-> conversationId, senderId |-> senderId,
     senderType |-> senderType, content |-> content, isRead |-> FALSE,
     createdAt |-> DefaultTimestamp]

\* ------------------------------------------------------------------- clock
Tick ==
    /\ now < MaxTime
    /\ now' = now + 1
    /\ UNCHANGED <<deployment, conversations, messages, nextConvId,
                   nextMsgId, inflight>>

\* ------------------------------------------- POST /api/conversations-unified
\* A lookup that leaves the product out of the filter altogether.
ProductFilterDropped(productId, c) == TRUE

\* ...(productId && { productId }): the product is part of the filter only
\* when the request carries one.
ProductFilter(productId, c) == productId # 0 => c.productId = productId

\* A lookup that matches the participants in the order given only.
FindExistingUnifiedOneWay(senderId, receiverId, productId) ==
    {c \in conversations :
        /\ c.customerId = senderId
        /\ c.vendorId = receiverId
        /\ ProductFilter(productId, c)}

\* findFirst({ where: { OR: [ sender/receiver, receiver/sender ] } }).  It has
\* no orderBy: any of these records may be the one returned.
FindExistingUnified(senderId, receiverId, productId) ==
    {c \in conversations :
        \/ /\ c.customerId = senderId
           /\ c.vendorId = receiverId
           /\ ProductFilter(productId, c)
        \/ /\ c.customerId = receiverId
           /\ c.vendorId = senderId
           /\ ProductFilter(productId, c)}

\* A handler without the senderId === receiverId check.
PostConversationUnifiedStatusNoSelfCheck(senderId, receiverId, productId) ==
    IF senderId = 0 \/ receiverId = 0 THEN 400
    ELSE IF FindExistingUnified(senderId, receiverId, productId) # {} THEN 200
    ELSE IF senderId \notin Users THEN 404
    ELSE IF receiverId \notin Users THEN 404
    ELSE IF productId # 0 /\ productId \notin Products THEN 404
    ELSE 0

\* The status the handler answers with before conversation.create, 0 when it
\* goes on to create.  No handler of the model writes User or Product, so the
\* lookups of both users and of the product read the same at any time between
\* findFirst and create; they are taken together with findFirst.
PostConversationUnifiedStatus(senderId, receiverId, productId) ==
    IF senderId = 0 \/ receiverId = 0 THEN 400
    ELSE IF senderId = receiverId THEN 400
    ELSE IF FindExistingUnified(senderId, receiverId, productId) # {} THEN 200
    ELSE IF senderId \notin Users THEN 404
    ELSE IF receiverId \notin Users THEN 404
    ELSE IF productId # 0 /\ productId \notin Products THEN 404
    ELSE 0

PostConversationUnified(senderId, receiverId, productId) ==
    /\ schema = "unified"
    /\ CanStart
    /\ IF PostConversationUnifiedStatus(senderId, receiverId, productId) = 0
       THEN Start([op |-> "createConversationUnified", pc |-> "create",
                   senderId |-> senderId, receiverId |-> receiverId,
                   productId |-> productId])
       ELSE UNCHANGED inflight
    /\ UNCHANGED <<deployment, conversations, messages, nextConvId,
                   nextMsgId, now>>

\* conversation.create, answered 201.
PostConversationUnifiedCreate(r) ==
    /\ r.op = "createConversationUnified"
    /\ r.pc = "create"
    /\ nextConvId <= MaxConvs
    /\ DocsCreated < MaxDocs
    /\ Finish(r)
    /\ conversations' = conversations \cup
          {NewConversation(nextConvId, r.senderId, r.receiverId, r.productId)}
    /\ nextConvId' = nextConvId + 1
    /\ UNCHANGED <<deployment, messages, nextMsgId, now>>

\* --------------------------------------------------- POST /api/conversations
FindExisting(customerId, vendorId, productId) ==
    {c \in conversations :
        /\ c.customerId = customerId
        /\ c.vendorId = vendorId
        /\ ProductFilter(productId, c)}

\* A handler without the product lookup.
PostConversationStatusNoProductCheck(customerId, vendorId, productId) ==
    IF customerId = 0 \/ vendorId = 0 THEN 400
    ELSE IF FindExisting(customerId, vendorId, productId) # {} THEN 200
    ELSE IF customerId \notin Customers THEN 404
    ELSE IF vendorId \notin Vendors THEN 404
    ELSE 0

PostConversationStatus(customerId, vendorId, productId) ==
    IF customerId = 0 \/ vendorId = 0 THEN 400
    ELSE IF FindExisting(customerId, vendorId, productId) # {} THEN 200
    ELSE IF customerId \notin Customers THEN 404
    ELSE IF vendorId \notin Vendors THEN 404
    ELSE IF productId # 0 /\ productId \notin Products THEN 404
    ELSE 0

PostConversation(customerId, vendorId, productId) ==
    /\ schema = "typed"
    /\ CanStart
    /\ IF PostConversationStatus(customerId, vendorId, productId) = 0
       THEN Start([op |-> "createConversation", pc |-> "create",
                   customerId |-> customerId, vendorId |-> vendorId,
                   productId |-> productId])
       ELSE UNCHANGED inflight
    /\ UNCHANGED <<deployment, conversations, messages, nextConvId,
                   nextMsgId, now>>

\* conversation.create, answered 201.
PostConversationCreate(r) ==
    /\ r.op = "createConversation"
    /\ r.pc = "create"
    /\ nextConvId <= MaxConvs
    /\ DocsCreated < MaxDocs
    /\ Finish(r)
    /\ conversations' = conversations \cup
          {NewConversation(nextConvId, r.customerId, r.vendorId, r.productId)}
    /\ nextConvId' = nextConvId + 1
    /\ UNCHANGED <<deployment, messages, nextMsgId, now>>

\* ------------------------------------- POST /api/conversations/[id]/messages
IsValidSender(c, senderId, senderType) ==
    \/ senderType = "customer" /\ c.customerId = senderId
    \/ senderType = "vendor" /\ c.vendorId = senderId

\* A handler without the isValidSender check.
SendMessageStatusNoSenderCheck(conversationId, senderId, senderType, content) ==
    IF content = "" \/ senderId = 0 \/ senderType = "" THEN 400
    ELSE IF senderType # "customer" /\ senderType # "vendor" THEN 400
    ELSE IF ConvById(conversationId) = {} THEN 404
    ELSE 0

\* Validation, conversation.findUnique and the sender check: the status
\* answered before message.create, 0 when the handler goes on.
SendMessageStatus(conversationId, senderId, senderType, content) ==
    IF content = "" \/ senderId = 0 \/ senderType = "" THEN 400
    ELSE IF senderType # "customer" /\ senderType # "vendor" THEN 400
    ELSE IF ConvById(conversationId) = {} THEN 404
    ELSE IF \E c \in ConvById(conversationId) : ~IsValidSender(c, senderId, senderType)
         THEN 403
    ELSE 0

SendMessage(conversationId, senderId, senderType, content) ==
    /\ CanStart
    /\ IF SendMessageStatus(conversationId, senderId, senderType, content) = 0
       THEN Start([op |-> "sendMessage", pc |-> "create",
                   conversationId |-> conversationId, senderId |-> senderId,
                   senderType |-> senderType, content |-> content])
       ELSE UNCHANGED inflight
    /\ UNCHANGED <<deployment, conversations, messages, nextConvId,
                   nextMsgId, now>>

\* message.create.  The document store keeps no foreign keys: the insert does
\* not look at the Conversation collection.
SendMessageCreate(r) ==
    /\ r.op = "sendMessage"
    /\ r.pc = "create"
    /\ nextMsgId <= MaxMsgs
    /\ DocsCreated < MaxDocs
    /\ messages' = messages \cup
          {NewMessage(nextMsgId, r.conversationId, r.senderId, r.senderType, r.content)}
    /\ nextMsgId' = nextMsgId + 1
    /\ Goto(r, [op |-> "sendMessage", pc |-> "update",
                conversationId |-> r.conversationId, senderId |-> r.senderId,
                senderType |-> r.senderType, content |-> r.content,
                messageId |-> nextMsgId, createdAt |-> now])
    /\ UNCHANGED <<deployment, conversations, nextConvId, now>>

\* An update that writes the counter instead of incrementing it.
TouchOnMessageOverwrite(c, senderType, date) ==
    IF senderType = "customer"
    THEN [c EXCEPT !.lastMessageAt = date, !.vendorUnread = 1]
    ELSE [c EXCEPT !.lastMessageAt = date, !.customerUnread = 1]

\* An update that increments the sender's own counter.
TouchOnMessageOwnSide(c, senderType, date) ==
    IF senderType = "customer"
    THEN [c EXCEPT !.lastMessageAt = date, !.customerUnread = @ + 1]
    ELSE [c EXCEPT !.lastMessageAt = date, !.vendorUnread = @ + 1]

\* An update that also clears the sender's own counter.
TouchOnMessageClearsOwn(c, senderType, date) ==
    IF senderType = "customer"
    THEN [c EXCEPT !.lastMessageAt = date, !.vendorUnread = @ + 1, !.customerUnread = 0]
    ELSE [c EXCEPT !.lastMessageAt = date, !.customerUnread = @ + 1, !.vendorUnread = 0]

\* updateData = { lastMessageAt: new Date(), <recipient>Unread: { increment: 1 } }
TouchOnMessage(c, senderType, date) ==
    IF senderType = "customer"
    THEN [c EXCEPT !.lastMessageAt = date, !.vendorUnread = @ + 1]
    ELSE [c EXCEPT !.lastMessageAt = date, !.customerUnread = @ + 1]

\* conversation.update with updateData.  new Date() is read after
\* message.create has resolved and before the update is applied: it is any
\* reading of the clock from the message's creation up to now.  The update
\* throws when no record has the id, and the catch block answers 500;
\* otherwise the answer is 201.
SendMessageUpdate(r) ==
    /\ r.op = "sendMessage"
    /\ r.pc = "update"
    /\ Finish(r)
    /\ IF ConvById(r.conversationId) = {}
       THEN UNCHANGED conversations
       ELSE \E c \in ConvById(r.conversationId), date \in r.createdAt..now :
                conversations' =
                    UpdateConversation(c, TouchOnMessage(c, r.senderType, date))
    /\ UNCHANGED <<deployment, messages, nextConvId, nextMsgId, now>>

\* conversation.update rejects although the record exists (the store cannot
\* be reached, or times out): the catch block answers 500.  Nothing undoes
\* message.create.
SendMessageUpdateFails(r) ==
    /\ r.op = "sendMessage"
    /\ r.pc = "update"
    /\ Finish(r)
    /\ UNCHANGED <<deployment, conversations, messages, nextConvId, nextMsgId, now>>

\* -------------------------------- PUT /api/conversations/[id] (role-typed)
\* A handler that knows the two roles only.
OtherSenderTypeStrict(userType) ==
    IF userType = "customer" THEN "vendor"
    ELSE IF userType = "vendor" THEN "customer" ELSE ""

OtherSenderType(userType) == IF userType = "customer" THEN "vendor" ELSE "customer"

\* An update that does not look at the conversation id.
MarkReadWhereAnyConversation(conversationId, fromOther) ==
    {IF m \in fromOther /\ ~m.isRead
     THEN [m EXCEPT !.isRead = TRUE]
     ELSE m : m \in messages}

\* An update that flips the flag of every message of the other side.
MarkReadWhereToggle(conversationId, fromOther) ==
    {IF m.conversationId = conversationId /\ m \in fromOther
     THEN [m EXCEPT !.isRead = ~m.isRead]
     ELSE m : m \in messages}

\* message.updateMany({ where: { conversationId, <author>, isRead: false },
\*                      data: { isRead: true } })
MarkReadWhere(conversationId, fromOther) ==
    {IF m.conversationId = conversationId /\ m \in fromOther /\ ~m.isRead
     THEN [m EXCEPT !.isRead = TRUE]
     ELSE m : m \in messages}

\* updateData = userType === 'customer' ? { customerUnread: 0 } : { vendorUnread: 0 }
ResetTyped(c, asCustomer) ==
    IF asCustomer
    THEN [c EXCEPT !.customerUnread = 0]
    ELSE [c EXCEPT !.vendorUnread = 0]

MarkReadStatus(id, userType) == IF userType = "" THEN 400 ELSE 0

\* Validation, then message.updateMany: the handler does not fetch the
\* conversation first.
MarkRead(id, userType) ==
    LET fromOther == {m \in messages : m.senderType = OtherSenderType(userType)}
    IN  /\ schema = "typed"
        /\ CanStart
        /\ IF MarkReadStatus(id, userType) = 0
           THEN /\ messages' = MarkReadWhere(id, fromOther)
                /\ Start([op |-> "markRead", pc |-> "update", id |-> id,
                          asCustomer |-> userType = "customer"])
           ELSE UNCHANGED <<inflight, messages>>
        /\ UNCHANGED <<deployment, conversations, nextConvId, nextMsgId, now>>

\* conversation.update: throws when no record has the id (the catch block
\* answers 500); otherwise the answer is 200.
MarkReadUpdate(r) ==
    /\ r.op = "markRead"
    /\ r.pc = "update"
    /\ Finish(r)
    /\ IF ConvById(r.id) = {}
       THEN UNCHANGED conversations
       ELSE \E c \in ConvById(r.id) :
                conversations' = UpdateConversation(c, ResetTyped(c, r.asCustomer))
    /\ UNCHANGED <<deployment, messages, nextConvId, nextMsgId, now>>

\* ----------------------------------- PUT /api/conversations/[id] (unified)
\* A reset that zeroes both counters.
ResetUnifiedBoth(c, isSender) ==
    [c EXCEPT !.customerUnread = 0, !.vendorUnread = 0]

\* A reset that takes one off the counter.
ResetUnifiedDecrement(c, isSender) ==
    IF isSender
    THEN [c EXCEPT !.customerUnread = IF @ > 0 THEN @ - 1 ELSE 0]
    ELSE [c EXCEPT !.vendorUnread = IF @ > 0 THEN @ - 1 ELSE 0]

\* updateData = isSender ? { senderUnread: 0 } : { receiverUnread: 0 }
ResetUnified(c, isSender) ==
    IF isSender
    THEN [c EXCEPT !.customerUnread = 0]
    ELSE [c EXCEPT !.vendorUnread = 0]

\* Validation, conversation.findUnique and the participant check.
MarkReadUnifiedStatus(id, userId) ==
    IF userId = 0 THEN 400
    ELSE IF ConvById(id) = {} THEN 404
    ELSE IF \E c \in ConvById(id) : c.customerId # userId /\ c.vendorId # userId
         THEN 403
    ELSE 0

\* The request keeps what it read from the conversation: the other user's id
\* and which side it is on.
MarkReadUnified(id, userId) ==
    /\ schema = "unified"
    /\ CanStart
    /\ IF MarkReadUnifiedStatus(id, userId) = 0
       THEN \E c \in ConvById(id) :
                Start([op |-> "markReadUnified", pc |-> "mark", id |-> id,
                       otherUserId |-> IF c.customerId = userId THEN c.vendorId
                                       ELSE c.customerId,
                       isSender |-> c.customerId = userId])
       ELSE UNCHANGED inflight
    /\ UNCHANGED <<deployment, conversations, messages, nextConvId,
                   nextMsgId, now>>

\* message.updateMany
MarkReadUnifiedMark(r) ==
    LET fromOther == {m \in messages : m.senderId = r.otherUserId}
    IN  /\ r.op = "markReadUnified"
        /\ r.pc = "mark"
        /\ messages' = MarkReadWhere(r.id, fromOther)
        /\ Goto(r, [r EXCEPT !.pc = "update"])
        /\ UNCHANGED <<deployment, conversations, nextConvId, nextMsgId, now>>

\* conversation.update: 500 when no record has the id, otherwise 200.
MarkReadUnifiedUpdate(r) ==
    /\ r.op = "markReadUnified"
    /\ r.pc = "update"
    /\ Finish(r)
    /\ IF ConvById(r.id) = {}
       THEN UNCHANGED conversations
       ELSE \E c \in ConvById(r.id) :
                conversations' = UpdateConversation(c, ResetUnified(c, r.isSender))
    /\ UNCHANGED <<deployment, messages, nextConvId, nextMsgId, now>>

\* -------------------------------------------- GET /api/conversations-unified
GetConversationsUnifiedStatus(userId) == IF userId = 0 THEN 400 ELSE 200

\* findMany({ where: { OR: [{ senderId: userId }, { receiverId: userId }] } })
FindManyUnified(userId) ==
    {c \in conversations : c.customerId = userId \/ c.vendorId = userId}

\* The handler writes nothing.
GetConversationsUnified(userId) ==
    /\ schema = "unified"
    /\ CanStart
    /\ GetConversationsUnifiedStatus(userId) \in {200, 400}
    /\ UNCHANGED vars

\* ---------------------------------------------------- GET /api/conversations
GetConversationsStatus(userId, userType) ==
    IF userId = 0 \/ userType = "" THEN 400 ELSE 200

\* whereClause = userType === 'customer' ? { customerId: userId }
\*             : userType === 'vendor' ? { vendorId: userId } : {}
WhereClause(userId, userType, c) ==
    IF userType = "customer" THEN c.customerId = userId
    ELSE IF userType = "vendor" THEN c.vendorId = userId
    ELSE TRUE

\* findMany({ where: whereClause })
FindMany(userId, userType) ==
    {c \in conversations : WhereClause(userId, userType, c)}

\* The handler writes nothing.
GetConversations(userId, userType) ==
    /\ schema = "typed"
    /\ CanStart
    /\ GetConversationsStatus(userId, userType) \in {200, 400}
    /\ UNCHANGED vars

\* --------------------------------------------- GET /api/conversations/[id]
\* conversation.findUnique({ where: { id }, include: { messages } }): 404 when
\* no record has the id, otherwise the conversation with its messages.
GetConversationStatus(id) == IF ConvById(id) = {} THEN 404 ELSE 200
GetConversationMessages(id) == IF ConvById(id) = {} THEN {} ELSE MessagesOf(id)

\* The handler writes nothing.
GetConversation(id) ==
    /\ CanStart
    /\ GetConversationStatus(id) \in {200, 404}
    /\ UNCHANGED vars

\* ------------------------------------------------- orderBy, take in the GETs
\* orderBy: { createdAt: 'asc' }: the orders the database may return, records
\* of equal createdAt in either order.
RECURSIVE OrderByCreatedAtAsc(_)
OrderByCreatedAtAsc(ms) ==
    IF ms = {} THEN {<< >>}
    ELSE UNION {{<<m>> \o s : s \in OrderByCreatedAtAsc(ms \ {m})} :
                m \in {x \in ms : \A y \in ms : x.createdAt <= y.createdAt}}

\* orderBy: { createdAt: 'desc' }
RECURSIVE OrderByCreatedAtDesc(_)
OrderByCreatedAtDesc(ms) ==
    IF ms = {} THEN {<< >>}
    ELSE UNION {{<<m>> \o s : s \in OrderByCreatedAtDesc(ms \ {m})} :
                m \in {x \in ms : \A y \in ms : x.createdAt >= y.createdAt}}

\* orderBy: { lastMessageAt: 'desc' }
RECURSIVE OrderByLastMessageAtDesc(_)
OrderByLastMessageAtDesc(cs) ==
    IF cs = {} THEN {<< >>}
    ELSE UNION {{<<c>> \o s : s \in OrderByLastMessageAtDesc(cs \ {c})} :
                c \in {x \in cs : \A y \in cs : x.lastMessageAt >= y.lastMessageAt}}

\* A take that keeps the whole list.
TakeAll(s, n) == s

\* take: n
Take(s, n) == SubSeq(s, 1, IF Len(s) < n THEN Len(s) ELSE n)

\* messages: { take: 1, orderBy: { createdAt: 'desc' } } of a listed
\* conversation: the lists the database may return.
ListedMessages(id) == {Take(s, 1) : s \in OrderByCreatedAtDesc(MessagesOf(id))}

\* The conversation lists the two list handlers may answer with, and the
\* message lists GET /api/conversations/[id] may answer with.  select keeps
\* some of the fields of a record; the records are kept whole here.
GetConversationsUnifiedBody(userId) == OrderByLastMessageAtDesc(FindManyUnified(userId))
GetConversationsBody(userId, userType) ==
    OrderByLastMessageAtDesc(FindMany(userId, userType))
GetConversationBody(id) == OrderByCreatedAtAsc(GetConversationMessages(id))

\* ------------------------------------------ DELETE /api/conversations/[id]
\* conversation.delete: throws when no record has the id (the catch block
\* answers 500); the deletion takes the conversation's messages with it.
DeleteConversationStatus(id) == IF ConvById(id) = {} THEN 500 ELSE 200

DeleteConversation(id) ==
    /\ CanStart
    /\ IF DeleteConversationStatus(id) = 200
       THEN /\ conversations' = conversations \ ConvById(id)
            /\ messages' = messages \ OnDeleteCascade(id)
       ELSE UNCHANGED <<conversations, messages>>
    /\ UNCHANGED <<deployment, nextConvId, nextMsgId, now, inflight>>

\* --------------------------------------------------------- catch blocks
\* The routes whose handler wraps its body in try / catch, as deployed.
Routes ==
    {"GET /api/conversations/[id]", "PUT /api/conversations/[id]",
     "DELETE /api/conversations/[id]", "POST /api/conversations/[id]/messages",
     "GET /api/reviews", "POST /api/reviews"}
    \cup (IF schema = "unified"
          THEN {"GET /api/conversations-unified", "POST /api/conversations-unified"}
          ELSE {"GET /api/conversations", "POST /api/conversations"})

\* The messages of the errors an awaited call may throw; "" is an error
\* without a message.
ErrorInputs ==
    {"", "Invalid prisma.conversation.update() invocation",
     "Record to update not found", "connect ECONNREFUSED 10.0.0.5:27017",
     "Unexpected end of JSON input"}

\* message: error.message || '<fallback>' in the POST handlers, the fixed
\* text in the others.
EchoesError(route) ==
    route \in {"POST /api/conversations/[id]/messages", "POST /api/reviews",
               "POST /api/conversations-unified", "POST /api/conversations"}

FallbackMessage(route) ==
    CASE route = "GET /api/conversations/[id]" -> "Failed to fetch conversation"
      [] route = "PUT /api/conversations/[id]" -> "Failed to mark messages as read"
      [] route = "DELETE /api/conversations/[id]" -> "Failed to delete conversation"
      [] route = "POST /api/conversations/[id]/messages" -> "Failed to send message"
      [] route = "GET /api/reviews" -> "Failed to fetch reviews"
      [] route = "POST /api/reviews" -> "Failed to create review"
      [] route \in {"GET /api/conversations-unified", "GET /api/conversations"}
            -> "Failed to fetch conversations"
      [] route \in {"POST /api/conversations-unified", "POST /api/conversations"}
            -> "Failed to create conversation"

\* details: undefined
NoDetails == [present |-> FALSE, of |-> "", by |-> ""]

\* The body of the 500 answer: details is error.toString() in the handlers
\* that echo the message and error.message in the others, in a development
\* build only.
CatchBody(route, env, error) ==
    [status |-> 500,
     message |-> IF EchoesError(route) /\ error # "" THEN error
                 ELSE FallbackMessage(route),
     details |-> IF env = "development"
                 THEN [present |-> TRUE, of |-> error,
                       by |-> IF EchoesError(route) THEN "toString" ELSE "message"]
                 ELSE NoDetails]

\* An awaited call of the route's handler throws error; the catch block
\* answers.
Catch(route, error) ==
    /\ response' = [route |-> route, body |-> CatchBody(route, nodeEnv, error)]
    /\ UNCHANGED <<schema, serial, nodeEnv, conversations, messages, nextConvId,
                   nextMsgId, now, inflight, reviews, nextReviewId>>

\* ---------------------------------------------------------- POST /api/reviews
\* A rating of the request body, in tenths (45 is 4.5); 0 is a missing rating.
RatingInputs == {0, 5, 10, 25, 30, 45, 50, 60}

\* parseInt(rating)
ParseInt(rating) == rating \div 10

\* review.findFirst({ where: { customerId, productId } })
FindExistingReview(customerId, productId) ==
    {v \in reviews : v.customerId = customerId /\ v.productId = productId}

\* The answer fixed before review.create: the two validations, the product
\* and the customer lookups, and the lookup of an existing review; 0 when the
\* handler goes on to create.
PostReviewStatus(customerId, productId, rating) ==
    IF customerId = 0 \/ productId = 0 \/ rating = 0 THEN 400
    ELSE IF rating < 10 \/ rating > 50 THEN 400
    ELSE IF productId \notin Products THEN 404
    ELSE IF customerId \notin Customers THEN 404
    ELSE IF FindExistingReview(customerId, productId) # {} THEN 400
    ELSE 0

\* Everything up to and including review.findFirst.  The products and the
\* customers do not change, so the three lookups are one step.
PostReview(customerId, productId, rating) ==
    /\ schema = "typed"
    /\ CanStart
    /\ IF PostReviewStatus(customerId, productId, rating) = 0
       THEN Start([op |-> "createReview", pc |-> "create",
                   customerId |-> customerId, productId |-> productId,
                   rating |-> rating])
       ELSE UNCHANGED inflight
    /\ UNCHANGED <<schema, serial, nodeEnv, response, conversations, messages,
                   nextConvId, nextMsgId, now, reviews, nextReviewId>>

\* review.create; the answer is 201.  createdAt, which GET /api/reviews orders
\* by, takes the schema's default.
PostReviewCreate(r) ==
    /\ r.op = "createReview"
    /\ r.pc = "create"
    /\ reviews' = reviews \cup {[id |-> nextReviewId, customerId |-> r.customerId,
                                 productId |-> r.productId,
                                 rating |-> ParseInt(r.rating),
                                 createdAt |-> DefaultTimestamp]}
    /\ nextReviewId' = nextReviewId + 1
    /\ Finish(r)
    /\ UNCHANGED <<schema, serial, nodeEnv, response, conversations, messages,
                   nextConvId, nextMsgId, now>>

\* ---------------------------------------------------------- initial state
InitStore ==
    /\ schema \in {"typed", "unified"}
    /\ conversations = {}
    /\ messages = {}
    /\ nextConvId = 1
    /\ nextMsgId = 1
    /\ now = 0
    /\ inflight = EmptyBag
    /\ reviews = {}
    /\ nextReviewId = 1

\* The store's behaviours do not read NODE_ENV; they are explored for the
\* production build.
NoResponse ==
    [route |-> "", body |-> [status |-> 0, message |-> "", details |-> NoDetails]]
InitProduction == InitStore /\ nodeEnv = "production" /\ response = NoResponse

Init == InitProduction /\ serial = FALSE
InitSerial == InitProduction /\ serial = TRUE

Next ==
    \/ Tick
    \/ \E s \in UserIdInputs, r \in UserIdInputs, p \in ProductIdInputs :
           PostConversationUnified(s, r, p)
    \/ \E r \in Pending : PostConversationUnifiedCreate(r)
    \/ \E c \in UserIdInputs, v \in UserIdInputs, p \in ProductIdInputs :
           PostConversation(c, v, p)
    \/ \E r \in Pending : PostConversationCreate(r)
    \/ \E id \in ConvIdInputs, s \in UserIdInputs, t \in SenderTypeInputs,
          b \in ContentInputs :
           SendMessage(id, s, t, b)
    \/ \E r \in Pending : SendMessageCreate(r)
    \/ \E r \in Pending : SendMessageUpdate(r)
    \/ \E id \in ConvIdInputs, t \in UserTypeInputs : MarkRead(id, t)
    \/ \E r \in Pending : MarkReadUpdate(r)
    \/ \E id \in ConvIdInputs, u \in UserIdInputs : MarkReadUnified(id, u)
    \/ \E r \in Pending : MarkReadUnifiedMark(r)
    \/ \E r \in Pending : MarkReadUnifiedUpdate(r)
    \/ \E u \in UserIdInputs : GetConversationsUnified(u)
    \/ \E u \in UserIdInputs, t \in UserTypeInputs : GetConversations(u, t)
    \/ \E id \in ConvIdInputs : GetConversation(id)
    \/ \E id \in ConvIdInputs : DeleteConversation(id)

\* Requests of any number of clients, interleaved at every awaited call.
Spec == Init /\ [][Next]_vars

\* One client that waits for each answer before its next request.
SpecSerial == InitSerial /\ [][Next]_vars

\* One client, and a store that may fail the second write of a send.
NextFaulty ==
    \/ Next
    \/ \E r \in Pending : SendMessageUpdateFails(r)

SpecFaulty == InitSerial /\ [][NextFaulty]_vars

\* The catch blocks alone, in either build, for every error thrown.
InitCatch ==
    /\ InitStore
    /\ serial = TRUE
    /\ nodeEnv \in {"development", "production"}
    /\ response = NoResponse

NextCatch == \E route \in Routes, error \in ErrorInputs : Catch(route, error)

SpecCatch == InitCatch /\ [][NextCatch]_vars

\* The review handler alone, which shares no record with the conversations:
\* requests of any number of clients, and of one client at a time.
InitReviews == InitProduction /\ schema = "typed" /\ serial \in {FALSE, TRUE}

NextReviews ==
    \/ Tick
    \/ \E c \in UserIdInputs, p \in ProductIdInputs, g \in RatingInputs :
           PostReview(c, p, g)
    \/ \E r \in Pending : PostReviewCreate(r)

SpecReviews == InitReviews /\ [][NextReviews]_vars
\* ===================================================================
\* Properties
\* ===================================================================
\* The key of a conversation: its unordered participant pair and its product
\* association (0: no product).
Pair(c) == {c.customerId, c.vendorId}
SameKey(c, d) == Pair(c) = Pair(d) /\ c.productId = d.productId
WithKey(a, b, productId) ==
    {c \in conversations : Pair(c) = {a, b} /\ c.productId = productId}

Quiescent == inflight = EmptyBag

\* The participants a create request of either variant names.
IsCreate(r) == r.op \in {"createConversation", "createConversationUnified"} /\ r.pc = "create"
Initiator(r) == IF r.op = "createConversation" THEN r.customerId ELSE r.senderId
Counterpart(r) == IF r.op = "createConversation" THEN r.vendorId ELSE r.receiverId

\* What the lookup-or-create handler of the deployed variant answers to
\* (a, b, productId) in the current state: its status (0: it creates) and the
\* ids it may return.
LookupStatus(a, b, productId) ==
    IF schema = "typed" THEN PostConversationStatus(a, b, productId)
    ELSE PostConversationUnifiedStatus(a, b, productId)
LookupIds(a, b, productId) ==
    IF schema = "typed" THEN {c.id : c \in FindExisting(a, b, productId)}
    ELSE {c.id : c \in FindExistingUnified(a, b, productId)}

\* C1: in every reachable state, concurrent lookup-or-create requests
\* included, at most one conversation exists per unordered participant pair
\* and product association (no product included).
C1_AtMostOnePerKey ==
    \A c \in conversations, d \in conversations : SameKey(c, d) => c = d

\* C2: two calls of startOrGetConversation(A, B, P) in sequence: the first,
\* finding no conversation for the key, creates one (201); the second answers
\* 200 with the id the first created, and the key holds exactly one record.
C2_FirstCreates ==
    \A a \in Users, b \in Users, p \in Products :
        (/\ Quiescent
         /\ a # b
         /\ (schema = "typed" => (a \in Customers /\ b \in Vendors))
         /\ WithKey(a, b, p) = {})
        => LookupStatus(a, b, p) = 0
C2_SecondFinds ==
    \A r \in Pending :
        (IsCreate(r) /\ nextConvId' = nextConvId + 1)
        => /\ LookupStatus(Initiator(r), Counterpart(r), r.productId)' = 200
           /\ LookupIds(Initiator(r), Counterpart(r), r.productId)' = {nextConvId}
           /\ Cardinality(WithKey(Initiator(r), Counterpart(r), r.productId)') = 1
C2_TwiceSameConversation == [](C2_FirstCreates) /\ [][C2_SecondFinds]_vars
C2_Witness ==
    /\ Quiescent
    /\ \E c \in conversations :
          /\ c.productId \in Products
          /\ LookupStatus(c.customerId, c.vendorId, c.productId) = 200
          /\ LookupIds(c.customerId, c.vendorId, c.productId) = {c.id}

\* C3: startOrGetConversation(A, B, P) and startOrGetConversation(B, A, P)
\* return the same conversation: once either has created it, the call with
\* the participants swapped answers 200 with that conversation and creates
\* nothing.
C3_OrderIndependent ==
    schema = "unified" =>
        \A c \in conversations :
            c.productId \in Products =>
                /\ PostConversationUnifiedStatus(c.vendorId, c.customerId, c.productId) = 200
                /\ FindExistingUnified(c.vendorId, c.customerId, c.productId) = {c}
                /\ FindExistingUnified(c.customerId, c.vendorId, c.productId) = {c}
C3_Witness ==
    /\ schema = "unified"
    /\ Quiescent
    /\ \E c \in conversations :
          /\ c.productId \in Products
          /\ c.customerId \in Vendors
          /\ FindExistingUnified(c.vendorId, c.customerId, c.productId) = {c}

\* C4: the lookup returns an existing conversation only when its stored
\* product association equals the requested one, a request without productId
\* matching only a conversation stored without product.
C4_LookupMatchesProduct ==
    \A a \in UserIdInputs, b \in UserIdInputs, p \in ProductIdInputs :
        /\ \A c \in FindExistingUnified(a, b, p) : c.productId = p
        /\ \A c \in FindExisting(a, b, p) : c.productId = p

\* C5: startOrGetConversation with equal initiator and counterpart is
\* answered 400 and creates nothing; no stored conversation, and no create
\* about to run, has two equal participant ids.
C5_NoSelfConversation ==
    /\ schema = "unified" =>
          \A a \in UserIdInputs, p \in ProductIdInputs :
              PostConversationUnifiedStatus(a, a, p) = 400
    /\ \A r \in Pending : IsCreate(r) => Initiator(r) # Counterpart(r)
    /\ \A c \in conversations : c.customerId # c.vendorId
C5_Witness ==
    /\ schema = "unified"
    /\ \E c \in conversations :
          /\ PostConversationUnifiedStatus(c.customerId, c.customerId, c.productId) = 400
          /\ WithKey(c.customerId, c.customerId, c.productId) = {}
    /\ \E r \in Pending : IsCreate(r)
\* The messages of conversation c written by its customerId side and by its
\* vendorId side.
ByCustomer(c) == {m \in MessagesOf(c.id) : m.senderId = c.customerId}
ByVendor(c) == {m \in MessagesOf(c.id) : m.senderId = c.vendorId}
Unread(ms) == {m \in ms : ~m.isRead}

\* C6: in a conversation no mark-read has touched, after N sendMessage calls
\* by one participant and M by the other have completed, in any order, the
\* other's unread counter is N and the one's is M.
C6_CountersCountMessages ==
    \A c \in conversations :
        (Quiescent /\ Unread(MessagesOf(c.id)) = MessagesOf(c.id))
        => /\ c.vendorUnread = Cardinality(ByCustomer(c))
           /\ c.customerUnread = Cardinality(ByVendor(c))
C6_Witness ==
    /\ Quiescent
    /\ \E c \in conversations :
          /\ c.vendorUnread = 1
          /\ c.customerUnread = 1
          /\ Cardinality(MessagesOf(c.id)) = 2
          /\ Unread(MessagesOf(c.id)) = MessagesOf(c.id)

\* C7: each participant's unread counter equals the number of stored unread
\* messages of the other participant (no drift), under any interleaving of
\* sendMessage and markConversationRead; stated for the states in which no
\* request is in flight, which the claim covers.
C7_NoDrift ==
    Quiescent =>
        \A c \in conversations :
            /\ c.vendorUnread = Cardinality(Unread(ByCustomer(c)))
            /\ c.customerUnread = Cardinality(Unread(ByVendor(c)))

\* C8: when a mark-read by reader R races with a sendMessage of the other
\* participant, then once both have completed every message of the other
\* participant that is still unread is counted in R's unread counter.
C8_ResetKeepsLaterMessage ==
    Quiescent =>
        \A c \in conversations :
            /\ Cardinality(Unread(ByCustomer(c))) <= c.vendorUnread
            /\ Cardinality(Unread(ByVendor(c))) <= c.customerUnread

\* A mark-read request of either variant: whether it reads for the customerId
\* side, and the messages of the other side.
IsMarkRead(r) == r.op \in {"markRead", "markReadUnified"}
ReadsAsCustomer(r) == IF r.op = "markRead" THEN r.asCustomer ELSE r.isSender
FromOtherSide(r, m) ==
    /\ m.conversationId = r.id
    /\ IF r.op = "markRead"
       THEN m.senderType = OtherSenderType(IF r.asCustomer THEN "customer" ELSE "vendor")
       ELSE m.senderId = r.otherUserId

\* The step in which mark-read request r has run message.updateMany.
C9_Marked(r) ==
    /\ conversations' = conversations
    /\ {m.id : m \in messages'} = {m.id : m \in messages}
    /\ \A m \in messages :
          IF FromOtherSide(r, m)
          THEN [m EXCEPT !.isRead = TRUE] \in messages'
          ELSE m \in messages'
\* The step in which mark-read request r has reset its reader's counter.
C9_Reset(r) ==
    /\ messages' = messages
    /\ \A m \in messages : FromOtherSide(r, m) => m.isRead
    /\ \A c \in ConvById(r.id) :
          conversations' = (conversations \ {c}) \cup
              {IF ReadsAsCustomer(r) THEN [c EXCEPT !.customerUnread = 0]
               ELSE [c EXCEPT !.vendorUnread = 0]}
\* C9: with no concurrent request, markConversationRead(conv, B) leaves B's
\* unread counter 0 and every message of A read, and changes neither A's
\* counter nor the isRead flag of any message of B.
C9_Step ==
    /\ \A r \in BagToSet(inflight') :
          (IsMarkRead(r) /\ r.pc = "update" /\ r \notin Pending) => C9_Marked(r)
    /\ \A r \in Pending :
          (IsMarkRead(r) /\ r.pc = "update" /\ inflight' = EmptyBag
           /\ ConvById(r.id) # {}) => C9_Reset(r)
C9_ReadResetsOneSide == [][C9_Step]_vars
C9_Witness ==
    /\ Quiescent
    /\ \E c \in conversations :
          /\ c.customerUnread = 0
          /\ c.vendorUnread = 1
          /\ \E m \in ByVendor(c) : m.isRead
          /\ \E m \in ByCustomer(c) : ~m.isRead

Newest(ms) == CHOOSE t \in {m.createdAt : m \in ms} : \A m \in ms : m.createdAt <= t

\* C10: a conversation's lastMessageAt is at least its creation time and is
\* the createdAt of its most recent message, or the creation time when it has
\* no message; stated for the states in which no request is in flight, which
\* the claim covers.
C10_LastMessageAtIsNewest ==
    Quiescent =>
        \A c \in conversations :
            /\ c.lastMessageAt >= c.createdAt
            /\ c.lastMessageAt = IF MessagesOf(c.id) = {} THEN c.createdAt
                                 ELSE Newest(MessagesOf(c.id))
\* The role a message claims is the role its sender holds in conversation c.
SentInRole(c, m) ==
    \/ m.senderType = "customer" /\ m.senderId = c.customerId
    \/ m.senderType = "vendor" /\ m.senderId = c.vendorId

\* C11: sendMessage by a sender who is not a participant of the conversation
\* answers 403 and never reaches message.create; so every stored message of a
\* stored conversation was sent by one of its two participants, in the role
\* that participant holds.
C11_OnlyParticipantsSend ==
    /\ \A c \in conversations, x \in UserIdInputs \ {0}, t \in {"customer", "vendor"} :
          x \notin Pair(c) => SendMessageStatus(c.id, x, t, "hi") = 403
    /\ \A r \in Pending, c \in conversations :
          (r.op = "sendMessage" /\ r.conversationId = c.id) => SentInRole(c, r)
    /\ \A m \in messages, c \in conversations :
          m.conversationId = c.id => SentInRole(c, m)
C11_Witness ==
    \E c \in conversations :
        /\ MessagesOf(c.id) # {}
        /\ \E x \in UserIdInputs \ {0} :
              x \notin Pair(c) /\ SendMessageStatus(c.id, x, "customer", "hi") = 403
\* C12: markConversationRead by a reader who is not one of the conversation's
\* two participants answers 403, on the unified and on the role-typed handler
\* (whose request carries a userType and no reader id), and so changes nothing.
C12_MarkReadAuthorized ==
    \A c \in conversations, x \in UserIdInputs \ {0} :
        x \notin Pair(c) =>
            /\ schema = "unified" => MarkReadUnifiedStatus(c.id, x) = 403
            /\ schema = "typed" =>
                  \A t \in UserTypeInputs \ {""} : MarkReadStatus(c.id, t) = 403
\* The ids of the conversations that have been deleted: issued, and no longer
\* stored.
Deleted == {id \in 1..(nextConvId - 1) : ConvById(id) = {}}

\* C13: once deleteConversation(conv) has completed, getConversation(conv)
\* answers 404 and no message with conversationId conv is stored or
\* retrievable, in every later state, also when a sendMessage on conv was in
\* flight while the deletion ran.
C13_DeletedLeavesNoMessage ==
    \A id \in Deleted :
        /\ GetConversationStatus(id) = 404
        /\ GetConversationMessages(id) = {}
        /\ MessagesOf(id) = {}
\* C14: deletion is terminal: get, sendMessage, markConversationRead and a
\* second deleteConversation addressed to the id of a deleted conversation all
\* answer 404 (and so change nothing).
C14_DeletedIs404 ==
    \A id \in Deleted :
        /\ GetConversationStatus(id) = 404
        /\ \A x \in Users, t \in {"customer", "vendor"} :
              SendMessageStatus(id, x, t, "hi") = 404
        /\ schema = "unified" => \A x \in Users : MarkReadUnifiedStatus(id, x) = 404
        /\ schema = "typed" => \A t \in UserTypeInputs \ {""} : MarkReadStatus(id, t) = 404
        /\ DeleteConversationStatus(id) = 404
\* A step in which send request r ends without its conversation update
\* applied: the update threw, and the catch block answered 500.
SendFailed(r) ==
    /\ r.op = "sendMessage"
    /\ r.pc = "update"
    /\ inflight' = inflight (-) SetToBag({r})
    /\ conversations' = conversations

\* C15: sendMessage is all-or-nothing: when a call ends in failure, also when
\* the conversation update fails after the message was created, no message of
\* that call is visible in the conversation.
C15_Step ==
    \A r \in Pending :
        SendFailed(r) =>
            \A m \in GetConversationMessages(r.conversationId)' : m.id # r.messageId
C15_FailedSendLeavesNothing == [][C15_Step]_vars
\* A step in which send request r ends, and the counter a send by senderType
\* increments.
SendEnds(r) ==
    /\ r.op = "sendMessage"
    /\ r.pc = "update"
    /\ inflight' = inflight (-) SetToBag({r})
RecipientUnread(c, senderType) ==
    IF senderType = "customer" THEN c.vendorUnread ELSE c.customerUnread

\* C16: within sendMessage the update follows the append.  A step that raises
\* an unread counter of a conversation is the end of a send whose message is
\* stored in that conversation, so increments never outnumber appended
\* messages; and when a send whose message was appended ends, the recipient's
\* counter of its (still stored) conversation has been incremented and
\* lastMessageAt set.
C16_Step ==
    /\ \A c \in conversations, d \in conversations' :
          (/\ d.id = c.id
           /\ \/ d.vendorUnread > c.vendorUnread
              \/ d.customerUnread > c.customerUnread)
          => \E r \in Pending :
                /\ SendEnds(r)
                /\ r.conversationId = c.id
                /\ \E m \in MessagesOf(c.id) : m.id = r.messageId
    /\ \A r \in Pending :
          SendEnds(r) =>
              \A c \in ConvById(r.conversationId) :
                  \E d \in conversations' :
                      /\ d.id = c.id
                      /\ RecipientUnread(d, r.senderType) =
                             RecipientUnread(c, r.senderType) + 1
                      /\ d.lastMessageAt >= r.createdAt
C16_UpdateFollowsAppend == [][C16_Step]_vars
\* A step in which mark-read request r ends.
MarkReadEnds(r) ==
    /\ IsMarkRead(r)
    /\ r.pc = "update"
    /\ inflight' = inflight (-) SetToBag({r})
SenderUnread(c, senderType) ==
    IF senderType = "customer" THEN c.customerUnread ELSE c.vendorUnread

\* C17: concurrent sendMessage calls lose no counter update.  However many
\* requests are in flight, the end of a send on a stored conversation raises
\* the recipient's counter by exactly one over its stored value and leaves
\* the sender's, and between two such steps only the end of a mark-read on
\* that conversation changes a counter of it: k completed sends with no
\* mark-read in between raise the counter by exactly k.
C17_Step ==
    /\ \A r \in Pending :
          SendEnds(r) =>
              \A c \in ConvById(r.conversationId) :
                  \E d \in conversations' :
                      /\ d.id = c.id
                      /\ RecipientUnread(d, r.senderType) =
                             RecipientUnread(c, r.senderType) + 1
                      /\ SenderUnread(d, r.senderType) = SenderUnread(c, r.senderType)
    /\ \A c \in conversations, d \in conversations' :
          (/\ d.id = c.id
           /\ <<d.customerUnread, d.vendorUnread>> # <<c.customerUnread, c.vendorUnread>>)
          => \E r \in Pending :
                /\ SendEnds(r) \/ MarkReadEnds(r)
                /\ (IF r.op = "sendMessage" THEN r.conversationId ELSE r.id) = c.id
C17_NoLostIncrement == [][C17_Step]_vars
\* Two sends of one sender overlap: the later message's call has ended and
\* been counted while the earlier message's call is still before its update.
C17_Witness ==
    \E c \in conversations, r \in Pending :
        /\ r.op = "sendMessage"
        /\ r.pc = "update"
        /\ r.conversationId = c.id
        /\ RecipientUnread(c, r.senderType) = 1
        /\ Unread(MessagesOf(c.id)) = MessagesOf(c.id)
        /\ \E m \in MessagesOf(c.id) : m.id > r.messageId /\ m.senderId = r.senderId
\* The conversations user x takes part in.
ConversationsOf(x) == {c \in conversations : x \in Pair(c)}

\* C18: listConversationsFor(x) returns the conversations in which x is a
\* stored participant and no other, whatever the request parameters: on the
\* unified route exactly those; on the role-typed route never another one,
\* for any userType, and exactly those when userType is x's role.
C18_ListOnlyOwn ==
    \A x \in UserIdInputs \ {0} :
        /\ schema = "unified" => FindManyUnified(x) = ConversationsOf(x)
        /\ schema = "typed" =>
              \A t \in UserTypeInputs \ {""} :
                  /\ GetConversationsStatus(x, t) = 200
                  /\ FindMany(x, t) \subseteq ConversationsOf(x)
                  /\ ((t = "customer" /\ x \in Customers) \/ (t = "vendor" /\ x \in Vendors))
                         => FindMany(x, t) = ConversationsOf(x)
\* C19: in a production build no error answer carries the text of the thrown
\* error: for an unexpected failure the body is the route's fixed payload,
\* whatever the error's message.
C19_NoLeakInProduction ==
    (nodeEnv = "production" /\ response # NoResponse)
    => response.body = [status |-> 500,
                        message |-> FallbackMessage(response.route),
                        details |-> NoDetails]
\* content.trim(), on the contents of the model.
Trim(content) == IF content = " " THEN "" ELSE content

\* C20: sendMessage with content that is empty or only whitespace answers 400,
\* stores no message and changes no counter.
C20_BlankContentRejected ==
    /\ \A c \in conversations, b \in ContentInputs :
          Trim(b) = "" => SendMessageStatus(c.id, c.customerId, "customer", b) = 400
    /\ \A r \in Pending : r.op = "sendMessage" => Trim(r.content) # ""
    /\ \A m \in messages : Trim(m.content) # ""
\* The participants a route accepts on each side, and the products a
\* conversation may refer to (0: none).
Initiators == IF schema = "typed" THEN Customers ELSE Users
Counterparts == IF schema = "typed" THEN Vendors ELSE Users
ProductsOrNone == Products \cup {0}

\* C21: startOrGetConversation (with two different ids) answers 404 and does
\* not go on to create when a participant does not exist or a supplied
\* productId resolves to no product; every create in flight and every stored
\* conversation refers to two existing participants and, if any, an existing
\* product.
C21_CreatesOnlyForExisting ==
    /\ \A a \in UserIdInputs \ {0}, b \in UserIdInputs \ {0}, q \in ProductIdInputs :
          (/\ a # b
           /\ \/ a \notin Initiators
              \/ b \notin Counterparts
              \/ q \notin ProductsOrNone)
          => LookupStatus(a, b, q) = 404
    /\ \A r \in Pending :
          IsCreate(r) => /\ Initiator(r) \in Initiators
                         /\ Counterpart(r) \in Counterparts
                         /\ r.productId \in ProductsOrNone
    /\ \A c \in conversations :
          /\ c.customerId \in Initiators
          /\ c.vendorId \in Counterparts
          /\ c.productId \in ProductsOrNone
C21_Witness ==
    \E c \in conversations :
        /\ c.productId \in Products
        /\ \E b \in UserIdInputs \ {0} :
              b \notin Counterparts /\ LookupStatus(c.customerId, b, c.productId) = 404
        /\ \E q \in ProductIdInputs :
              q \notin ProductsOrNone /\ LookupStatus(c.customerId, c.vendorId, q) = 404

\* The counter a mark-read request resets, and the unread messages it marks.
ReaderUnread(r, c) == IF ReadsAsCustomer(r) THEN c.customerUnread ELSE c.vendorUnread
UnreadFor(r) == {m \in messages : FromOtherSide(r, m) /\ ~m.isRead}
\* The step in which mark-read request r runs message.updateMany.
MarkReadMarks(r) ==
    /\ IsMarkRead(r)
    /\ r.pc = "update"
    /\ CopiesIn(r, inflight') > CopiesIn(r, inflight)

\* C22: markConversationRead is idempotent.  With no concurrent request, a
\* participant's mark-read is accepted whatever is unread; when the reader
\* has nothing unread its two writes change neither the messages nor the
\* conversations; and when a mark-read ends, the reader has nothing unread and
\* a zero counter, so a second call right after it is such a call and leaves
\* the state the first one left.
C22_Step ==
    /\ \A c \in conversations : \A x \in Pair(c) :
          IF schema = "typed"
          THEN \A t \in {"customer", "vendor"} : MarkReadStatus(c.id, t) = 0
          ELSE MarkReadUnifiedStatus(c.id, x) = 0
    /\ \A r \in BagToSet(inflight') :
          (MarkReadMarks(r) /\ UnreadFor(r) = {})
          => /\ messages' = messages
             /\ conversations' = conversations
    /\ \A r \in Pending :
          (MarkReadEnds(r) /\ ConvById(r.id) # {})
          => /\ (\A c \in ConvById(r.id) : ReaderUnread(r, c) = 0)
                   => /\ conversations' = conversations
                      /\ messages' = messages
             /\ \A d \in ConvById(r.id)' : ReaderUnread(r, d) = 0
             /\ UnreadFor(r)' = {}
C22_MarkReadIdempotent == [][C22_Step]_vars
\* A second mark-read is between its two writes: the other side's message is
\* already read and the reader's counter already 0.
C22_Witness ==
    \E r \in Pending, c \in conversations :
        /\ IsMarkRead(r)
        /\ r.pc = "update"
        /\ r.id = c.id
        /\ ReaderUnread(r, c) = 0
        /\ UnreadFor(r) = {}
        /\ \E m \in messages : FromOtherSide(r, m)

\* The conversation lists a list request of the current variant may get.
ListBodies ==
    IF schema = "typed"
    THEN UNION {GetConversationsBody(x, t) :
                x \in UserIdInputs \ {0}, t \in UserTypeInputs \ {""}}
    ELSE UNION {GetConversationsUnifiedBody(x) : x \in UserIdInputs \ {0}}

\* C23: getConversation returns a conversation's messages in non-decreasing
\* createdAt order, all of them, and the list handlers return conversations in
\* non-increasing lastMessageAt order, each carrying at most one message, the
\* most recent of the conversation (none when it has no message).
C23_ResultsOrdered ==
    /\ \A id \in ConvIdInputs : \A s \in GetConversationBody(id) :
          /\ {s[i] : i \in 1..Len(s)} = GetConversationMessages(id)
          /\ Len(s) = Cardinality(GetConversationMessages(id))
          /\ \A i \in 1..Len(s), j \in 1..Len(s) :
                i < j => s[i].createdAt <= s[j].createdAt
    /\ \A l \in ListBodies :
          /\ \A i \in 1..Len(l), j \in 1..Len(l) :
                i < j => l[i].lastMessageAt >= l[j].lastMessageAt
          /\ \A i \in 1..Len(l) : \A s \in ListedMessages(l[i].id) :
                /\ Len(s) <= 1
                /\ Len(s) = 0 <=> MessagesOf(l[i].id) = {}
                /\ \A k \in 1..Len(s) :
                      /\ s[k] \in MessagesOf(l[i].id)
                      /\ \A m \in MessagesOf(l[i].id) : m.createdAt <= s[k].createdAt
\* A conversation holds two messages of different createdAt; it is read in
\* full, earlier message first, and listed with the later message.
C23_Witness ==
    \E c \in conversations, m \in messages, n \in messages :
        /\ m.conversationId = c.id
        /\ n.conversationId = c.id
        /\ m.createdAt < n.createdAt
        /\ <<m, n>> \in GetConversationBody(c.id)
        /\ <<n>> \in ListedMessages(c.id)
        /\ \E l \in ListBodies : \E i \in 1..Len(l) : l[i] = c

SendCreates(r) ==
    /\ r.op = "sendMessage"
    /\ r.pc = "update"
    /\ r \in BagToSet(inflight')
    /\ nextMsgId' = nextMsgId + 1
    /\ r.messageId = nextMsgId

\* C25: a successful sendMessage by participant A changes only the new
\* message, the conversation's lastMessageAt and B's unread counter.  Its
\* first write adds one message, unread, and leaves every stored message and
\* every conversation as it is; its second write leaves every message and
\* every other conversation as it is, and in its conversation changes no
\* field but lastMessageAt and B's counter: A's own counter stays.
C25_Step ==
    /\ \A r \in BagToSet(inflight') :
          SendCreates(r) =>
              /\ conversations' = conversations
              /\ messages \subseteq messages'
              /\ \E m \in messages' :
                    /\ messages' = messages \cup {m}
                    /\ m \notin messages
                    /\ m.id = r.messageId
                    /\ m.conversationId = r.conversationId
    /\ \A r \in Pending :
          (SendEnds(r) /\ ConvById(r.conversationId) # {}) =>
              /\ messages' = messages
              /\ \A c \in conversations :
                    IF c.id # r.conversationId
                    THEN c \in conversations'
                    ELSE \E d \in conversations' :
                            /\ conversations' = (conversations \ {c}) \cup {d}
                            /\ [d EXCEPT !.lastMessageAt = 0, !.customerUnread = 0,
                                         !.vendorUnread = 0]
                               = [c EXCEPT !.lastMessageAt = 0, !.customerUnread = 0,
                                           !.vendorUnread = 0]
                            /\ SenderUnread(d, r.senderType) = SenderUnread(c, r.senderType)
C25_SendFrame == [][C25_Step]_vars
\* A has read B's message and answered it: B's message is still read, A's own
\* counter is still 0, and the answer is counted for B.
C25_Witness ==
    /\ Quiescent
    /\ \E c \in conversations : \E m \in MessagesOf(c.id), n \in MessagesOf(c.id) :
          /\ m.id < n.id
          /\ m.senderId # n.senderId
          /\ m.isRead
          /\ ~n.isRead
          /\ SenderUnread(c, n.senderType) = 0
          /\ RecipientUnread(c, n.senderType) = 1

\* C26: a message's isRead flag is false when the message is created, changes
\* only in the updateMany of a mark-read on the message's conversation, and
\* never returns from true to false.
C26_Step ==
    \A m \in messages' :
        IF \A o \in messages : o.id # m.id
        THEN ~m.isRead
        ELSE \A o \in messages :
                o.id = m.id
                => /\ o.isRead => m.isRead
                   /\ o.isRead # m.isRead
                         => \E r \in BagToSet(inflight') :
                               MarkReadMarks(r) /\ r.id = m.conversationId
C26_IsReadMonotone == [][C26_Step]_vars
\* A message sent after its sender's earlier message was read: the earlier one
\* is still read, the later one unread.
C26_Witness ==
    /\ Quiescent
    /\ \E m \in messages, n \in messages :
          /\ m.conversationId = n.conversationId
          /\ m.senderId = n.senderId
          /\ m.id < n.id
          /\ m.isRead
          /\ ~n.isRead

\* The end of a send by the participant of conversation c on the given side,
\* and the end of a mark-read on c that reads for the given side (in the
\* unified handler, by the participant on that side).
SentBy(c, asCustomer) ==
    \E r \in Pending :
        /\ SendEnds(r)
        /\ r.conversationId = c.id
        /\ r.senderType = (IF asCustomer THEN "customer" ELSE "vendor")
        /\ r.senderId = (IF asCustomer THEN c.customerId ELSE c.vendorId)
ReadBy(c, asCustomer) ==
    \E r \in Pending :
        /\ MarkReadEnds(r)
        /\ r.id = c.id
        /\ ReadsAsCustomer(r) = asCustomer
        /\ r.op = "markReadUnified"
              => r.otherUserId = (IF asCustomer THEN c.vendorId ELSE c.customerId)

\* C27: both unread counters of a conversation are non-negative in every
\* reachable state, and a step changes a counter only by adding 1, at the end
\* of a send by the other participant, or by setting it to 0, at the end of a
\* mark-read for the counter's side; no step takes a count off a counter.
C27_NonNegative ==
    \A c \in conversations : c.customerUnread >= 0 /\ c.vendorUnread >= 0
C27_Step ==
    \A c \in conversations, d \in conversations' :
        d.id = c.id
        => /\ d.customerUnread # c.customerUnread
                 => \/ d.customerUnread = c.customerUnread + 1 /\ SentBy(c, FALSE)
                    \/ d.customerUnread = 0 /\ ReadBy(c, TRUE)
           /\ d.vendorUnread # c.vendorUnread
                 => \/ d.vendorUnread = c.vendorUnread + 1 /\ SentBy(c, TRUE)
                    \/ d.vendorUnread = 0 /\ ReadBy(c, FALSE)
C27_CountersStepByOneOrReset == [](C27_NonNegative) /\ [][C27_Step]_vars
\* The customer has sent twice and the vendor has read: the vendor's counter
\* went to 2 by ones and is 0 again.
C27_Witness ==
    /\ Quiescent
    /\ \E c \in conversations :
          /\ c.vendorUnread = 0
          /\ Cardinality(ByCustomer(c)) = 2
          /\ Unread(ByCustomer(c)) = {}

\* C28: a conversation's lastMessageAt never decreases, under any
\* interleaving of concurrent sendMessage calls on one conversation.
C28_Step ==
    \A c \in conversations, d \in conversations' :
        d.id = c.id => d.lastMessageAt >= c.lastMessageAt
C28_LastMessageAtNeverDecreases == [][C28_Step]_vars

\* C29: in the role-typed mark-read handler a request whose userType is any
\* non-empty value other than 'customer' is handled as the vendor: it marks
\* the customer-authored messages of the conversation read and then sets
\* vendorUnread to 0, while userType 'customer' marks the vendor-authored
\* messages read and then sets customerUnread to 0; an empty or missing
\* userType is answered 400 and changes nothing.
C29_Step ==
    /\ \A id \in ConvIdInputs, t \in UserTypeInputs :
          MarkRead(id, t) =>
              IF t = ""
              THEN MarkReadStatus(id, t) = 400 /\ UNCHANGED vars
              ELSE /\ MarkReadStatus(id, t) = 0
                   /\ conversations' = conversations
                   /\ {m.id : m \in messages'} = {m.id : m \in messages}
                   /\ \A m \in messages :
                         IF /\ m.conversationId = id
                            /\ m.senderType = (IF t = "customer" THEN "vendor"
                                               ELSE "customer")
                         THEN [m EXCEPT !.isRead = TRUE] \in messages'
                         ELSE m \in messages'
                   /\ \E r \in BagToSet(inflight') :
                         /\ MarkReadMarks(r)
                         /\ r.op = "markRead"
                         /\ r.id = id
                         /\ r.asCustomer = (t = "customer")
    /\ \A r \in Pending :
          (MarkReadEnds(r) /\ r.op = "markRead") =>
              /\ messages' = messages
              /\ \A c \in ConvById(r.id) :
                    conversations' = (conversations \ {c}) \cup
                        {IF r.asCustomer THEN [c EXCEPT !.customerUnread = 0]
                         ELSE [c EXCEPT !.vendorUnread = 0]}
C29_TypedMarkReadByUserType == [][C29_Step]_vars
\* A role-typed request handled as the vendor is between its two writes: the
\* customer's message is read, vendorUnread is not reset yet.
C29_Witness ==
    /\ schema = "typed"
    /\ \E r \in Pending, c \in conversations :
          /\ r.op = "markRead"
          /\ r.pc = "update"
          /\ ~r.asCustomer
          /\ r.id = c.id
          /\ c.vendorUnread = 1
          /\ \E m \in MessagesOf(c.id) : m.senderType = "customer" /\ m.isRead
====
